---- MODULE Spec2Model ----
(***************************************************************************)
(* PromptDj (src/index.tsx): its playback scheduler, its effects chain,    *)
(* its bit crusher, its Kaoss pad and its prompt ids; and the PCM / base64 *)
(* codec and the waveform summary of src/utils.ts.                         *)
(*                                                                         *)
(* Time is counted in tenths of a second on the audio clock                *)
(* (audioContext.currentTime); setTimeout delays are counted on the same   *)
(* clock.  Every handler of the component runs to completion on the single *)
(* JavaScript thread, so a handler is one action.  The one `await` inside  *)
(* the chunk handler (decodeAudioData, src/utils.ts:106-136) awaits a      *)
(* function that never yields, so its continuation runs in the microtask   *)
(* checkpoint of the same task, before any timer or event handler.  The    *)
(* `await connectToSession()` of handlePlayPause and handleReset is taken  *)
(* to resolve before the next event is handled.  A timer callback runs     *)
(* when its delay has elapsed, before the clock is sampled again.          *)
(* Recording (isRecording, handleRecord) does not touch the scheduler and  *)
(* is left out.                                                            *)
(***************************************************************************)
EXTENDS Integers, Sequences, FiniteSets, TLC

\* ---------------------------------------------------------------- bounds
\* Environment events (messages, clicks) happen up to this clock value.
MaxTime == 30
\* The clock is sampled every TickStep tenths of a second (Tick).
TickStep == 10
\* Audio chunk messages delivered over the run.
MaxChunks == 3
\* GainNodes created by pauseAudio over the run.
MaxNodes == 1

\* -------------------------------------------------------- program constants
\* bufferTime = 2 (seconds), in tenths of a second.
bufferTime == 20
\* setTimeout(this.loadAudio.bind(this), 100): 100 ms in tenths of a second.
resetDelay == 1
\* Durations of decoded chunks (audioBuffer.duration), in tenths of a second;
\* decodeAudioData never returns an empty buffer, so a duration is positive.
Durations == {5, 10}

VARIABLES
    now,            \* audioContext.currentTime
    playbackState,  \* this.playbackState
    nextStartTime,  \* this.nextStartTime, the scheduler cursor (0 = sentinel)
    connectionError,\* this.connectionError
    session,        \* this.session: "none" (undefined), "open", "closed"
    outputNode,     \* this.outputNode, the identity of the current GainNode
    chainInputs,    \* GainNodes connected to this.lowPassFilter
    masterGain,     \* target value of this.masterOut.gain
    leadTimers,     \* due times of the pending setTimeout(..., bufferTime*1000)
    resetTimers,    \* due times of the pending setTimeout(loadAudio, 100)
    segments,       \* history: every source.start(...) call, in call order
    nArr,           \* history: number of audio chunk messages delivered
    run,            \* history: segments started since the last cursor reset
    runAt,          \* history: arrival time of the first of those segments
    awaitingPlay,   \* history: pauseAudio ran and loadAudio has not run since
    recover,        \* history: progress of an underrun recovery
    ev,             \* history: the handler that ran last at this clock value
    codec,          \* the PCM / base64 codec of src/utils.ts applied to one input
    fx,             \* the effect parameters and enabled flags of PromptDj
    kaoss,          \* the Kaoss pad fields of PromptDj, its listeners and timers
    graph,          \* the audio graph: AudioParam targets, curve, connections
    wallClock,      \* Date.now()
    fxEv,           \* history: the effects handler that ran last at this clock value
    crusher,        \* the bit crusher: its parameters, held sample and output
    prompts,        \* this.prompts, the promptIds that are its keys
    nextPromptId,   \* this.nextPromptId
    storedPrompts,  \* localStorage 'prompts', the promptIds of the stored list
    promptEv        \* history: the prompt handler that ran last

vars == <<now, playbackState, nextStartTime, connectionError, session,
          outputNode, chainInputs, masterGain, leadTimers, resetTimers,
          segments, nArr, run, runAt, awaitingPlay, recover, ev, codec,
          fx, kaoss, graph, wallClock, fxEv, crusher, prompts, nextPromptId,
          storedPrompts, promptEv>>

\* The variables of the playback scheduler.
schedVars == <<now, playbackState, nextStartTime, connectionError, session,
               outputNode, chainInputs, masterGain, leadTimers, resetTimers,
               segments, nArr, run, runAt, awaitingPlay, recover, ev>>

\* The variables the scheduler's handlers never touch.
codecVars == <<codec>>

fxVars == <<fx, kaoss, graph, wallClock, fxEv>>

crusherVars == <<crusher>>

promptVars == <<prompts, nextPromptId, storedPrompts, promptEv>>

\* ================================================== the codec (src/utils.ts)
\* A float sample is the numerator of a fraction over SampleOne: the value
\* n / (FullScale * SubSteps), so that n / SubSteps is the sample times 32768.
\* A byte is a number in 0..255, a base64 character its 6-bit value, and the
\* padding character '=' is Pad.

\* data[i] * 32768 and sample / 32768.0
FullScale == 32768
\* Float values modelled between two neighbouring 16-bit levels.
SubSteps == 4
\* Samples are taken within EdgeWidth steps of -1, 0 and 1 (inside and outside).
EdgeWidth == 3
\* Samples in a buffer handed to createBlobFromFloat32.
MaxSamples == 2
\* Bytes in a buffer handed to encode.
MaxBytes == 5
\* Channel counts handed to decodeAudioData.
MaxChannels == 2
\* Bytes in a buffer of interleaved frames handed to decode.
MaxFrameBytes == 8
\* Samples in a window of the waveform of the longest mono channel.
MaxWindow == 2

\* const waveformLength = 1024
waveformLength == 1024

SampleOne == FullScale * SubSteps

\* The float samples of an input buffer: around -1, 0 and 1, and well outside.
SampleValues ==
    UNION {{k, SampleOne - k, k - SampleOne} : k \in -EdgeWidth..EdgeWidth}
        \cup {2 * SampleOne, -2 * SampleOne}

\* The byte values of an input buffer.
ByteValues == {0, 1, 127, 128, 255}

\* The byte values of a buffer of interleaved frames: any two of them make
\* a different 16-bit sample in either byte order.
FrameByteValues == {1, 128}

SeqsUpTo(S, n) == UNION {[1..k -> S] : k \in 0..n}

Pad == 64

\* btoa(binary): three 8-bit characters become four base64 characters; a last
\* group of one or two characters is padded with '='.
btoa(bin) ==
    LET n == Len(bin)
        at(k) == IF k <= n THEN bin[k] ELSE 0
        \* character c (0..3) of the group g (from 0) of three characters
        char(g, c) ==
            LET b1 == at(3 * g + 1)
                b2 == at(3 * g + 2)
                b3 == at(3 * g + 3)
            IN  CASE c = 0 -> b1 \div 4
                  [] c = 1 -> (b1 % 4) * 16 + b2 \div 16
                  [] c = 2 -> IF 3 * g + 2 > n THEN Pad
                              ELSE (b2 % 16) * 4 + b3 \div 64
                  [] c = 3 -> IF 3 * g + 3 > n THEN Pad ELSE b3 % 64
    IN  [k \in 1..4 * ((n + 2) \div 3) |->
            char((k - 1) \div 4, (k - 1) % 4)]

\* atob(base64): the padding is removed; four base64 characters become three
\* 8-bit characters, a last group of two or three becomes one or two, and a
\* last group of one makes the call throw (InvalidCharacterError).  The
\* result says whether the call threw, and the binary string if it did not.
RECURSIVE atobGroups(_)
atobGroups(s) ==
    IF Len(s) = 0 THEN <<>>
    ELSE IF Len(s) = 2
    THEN <<s[1] * 4 + s[2] \div 16>>
    ELSE IF Len(s) = 3
    THEN <<s[1] * 4 + s[2] \div 16, (s[2] % 16) * 16 + s[3] \div 4>>
    ELSE <<s[1] * 4 + s[2] \div 16, (s[2] % 16) * 16 + s[3] \div 4,
           (s[3] % 4) * 64 + s[4]>>
         \o atobGroups(SubSeq(s, 5, Len(s)))

StripPadding(s) ==
    IF Len(s) % 4 = 0 /\ Len(s) > 0 /\ s[Len(s)] = Pad
    THEN IF s[Len(s) - 1] = Pad
         THEN SubSeq(s, 1, Len(s) - 2)
         ELSE SubSeq(s, 1, Len(s) - 1)
    ELSE s

atob(s) ==
    LET t == StripPadding(s)
    IN  IF Len(t) % 4 = 1
        THEN [threw |-> TRUE, value |-> <<>>]
        ELSE [threw |-> FALSE, value |-> atobGroups(t)]

\* encode that keeps the low seven bits of every byte.
encodeSevenBit(bytes) == btoa([i \in 1..Len(bytes) |-> bytes[i] % 128])

\* encode(bytes): binary += String.fromCharCode(bytes[i]); return btoa(binary)
encode(bytes) == btoa([i \in 1..Len(bytes) |-> bytes[i]])

\* decode(base64): bytes[i] = binaryString.charCodeAt(i)
decode(base64) ==
    LET binaryString == atob(base64)
    IN  [threw |-> binaryString.threw,
         value |-> [i \in 1..Len(binaryString.value) |->
                       binaryString.value[i]]]

\* The scaled sample left unclamped.
ClampInt16Missing(v) == v

\* Math.max(-32768, Math.min(32767, v)), v in units of 1 / SubSteps
ClampInt16(v) ==
    LET lo == -FullScale * SubSteps
        hi == (FullScale - 1) * SubSteps
    IN  IF v < lo THEN lo ELSE IF v > hi THEN hi ELSE v

\* The store into an Int16Array element (ToInt16): the fraction is dropped
\* (truncation toward zero) and the integer wraps modulo 2^16.
ToInt16(v) ==
    LET t == IF v >= 0 THEN v \div SubSteps ELSE -((-v) \div SubSteps)
    IN  ((t + FullScale) % (2 * FullScale)) - FullScale

\* int16[i] = Math.max(-32768, Math.min(32767, data[i] * 32768))
SampleToInt16(s) == ToInt16(ClampInt16(s))

\* new Uint8Array(int16.buffer): the two bytes of one element, in the byte
\* order of the platform (little-endian on every platform a browser runs on).
Int16Bytes(n) ==
    LET u == (n + 2 * FullScale) % (2 * FullScale)
    IN  <<u % 256, u \div 256>>

\* The bytes of the Int16Array that createBlobFromFloat32 fills: bytes
\* 2i - 1 and 2i are those of element i.
PcmBytes(data) ==
    [k \in 1..2 * Len(data) |->
        Int16Bytes(SampleToInt16(data[(k + 1) \div 2]))
            [IF k % 2 = 1 THEN 1 ELSE 2]]

\* createBlobFromFloat32(data).data
createBlobFromFloat32(data) == encode(PcmBytes(data))

\* The outcome of a read that throws: a value no 16-bit read returns.
RangeError == 2 * FullScale

\* The read with the high byte first.
getInt16BigEndian(data, dataIndex) ==
    IF dataIndex + 2 > Len(data) THEN RangeError
    ELSE LET u == 256 * data[dataIndex + 1] + data[dataIndex + 2]
         IN  IF u >= FullScale THEN u - 2 * FullScale ELSE u

\* view.getInt16(dataIndex, true); dataIndex counts bytes from 0.  A read
\* past the end of the view throws a RangeError.
getInt16(data, dataIndex) ==
    IF dataIndex + 2 > Len(data) THEN RangeError
    ELSE LET u == data[dataIndex + 1] + 256 * data[dataIndex + 2]
         IN  IF u >= FullScale THEN u - 2 * FullScale ELSE u

\* The sample count rounded up instead of down.
NumSamplesCeil(byteLength, numChannels) ==
    (byteLength + 2 * numChannels - 1) \div (2 * numChannels)

\* Math.floor(data.byteLength / 2 / numChannels)
NumSamples(byteLength, numChannels) == byteLength \div (2 * numChannels)

\* decodeAudioData(data, ctx, sampleRate, numChannels): the channels of the
\* AudioBuffer it returns (createBuffer gives silent channels), or the
\* exception it throws.
decodeAudioData(data, numChannels) ==
    LET numSamples == NumSamples(Len(data), numChannels)
        sample(channel, i) ==
            getInt16(data, channel * 2 + i * numChannels * 2)
        raises == \E channel \in 0..numChannels - 1, i \in 0..numSamples - 1 :
                      sample(channel, i) = RangeError
    IN  IF numSamples = 0
        THEN [raised |-> FALSE,
              channels |-> [channel \in 1..numChannels |-> <<0>>]]
        ELSE IF raises
        THEN [raised |-> TRUE, channels |-> <<>>]
        ELSE [raised |-> FALSE,
              channels |->
                  [channel \in 1..numChannels |->
                      [i \in 1..numSamples |->
                          sample(channel - 1, i - 1) * SubSteps]]]

\* The lengths of a mono channel: shorter than the waveform, and whole
\* windows of 1..MaxWindow samples with no, one and the most samples left.
MonoLengths ==
    {0, waveformLength - 1}
        \cup {w * waveformLength + r :
                  w \in 1..MaxWindow, r \in {0, 1, waveformLength - 1}}

\* Where a mono channel of a length has its peak: at the ends of the first
\* two windows, of the last window, of the channel.
PeakPositions(length) ==
    LET w == length \div waveformLength
    IN  {k \in {0, w - 1, w, waveformLength * w - 1, waveformLength * w,
                length - 1} : k >= 0 /\ k < length}

\* The peak of a mono channel: half of full scale, and minus full scale.
PeakValues == {SampleOne \div 2, -SampleOne}

\* A mono channel: one 16-bit level and less everywhere but at its peak.
MonoSignal(length, at, peak) ==
    [j \in 1..length |->
        IF j = at + 1 THEN peak ELSE SubSteps * (((j - 1) % 3) - 1)]

MonoChannels ==
    {<<>>} \cup
    UNION {{MonoSignal(length, at, peak) :
               at \in PeakPositions(length), peak \in PeakValues} :
           length \in MonoLengths}

\* for (let j = start; j < end; j++) { const val = Math.abs(monoChannel[j]);
\* if (val > max) max = val; } from j on.  A read past the end gives
\* undefined, Math.abs gives NaN and NaN > max is false.
RECURSIVE WindowPeak(_, _, _, _)
WindowPeak(monoChannel, j, end, max) ==
    IF j >= end THEN max
    ELSE LET val == IF j < Len(monoChannel)
                    THEN IF monoChannel[j + 1] < 0 THEN -monoChannel[j + 1]
                         ELSE monoChannel[j + 1]
                    ELSE 0
         IN  WindowPeak(monoChannel, j + 1, end,
                        IF val > max THEN val ELSE max)

\* Windows that take in the first sample of the next window.
WaveformOverlapping(monoChannel) ==
    LET step == Len(monoChannel) \div waveformLength
    IN  [i \in 1..waveformLength |->
            WindowPeak(monoChannel, (i - 1) * step,
                       (i - 1) * step + step + 1, 0)]

\* The waveform data of resampleAndEncodeAudio for the mono channel.
Waveform(monoChannel) ==
    LET step == Len(monoChannel) \div waveformLength
    IN  [i \in 1..waveformLength |->
            WindowPeak(monoChannel, (i - 1) * step, (i - 1) * step + step, 0)]

\* No input has been handed to the codec.
CodecIdle ==
    [stage |-> "idle", origin |-> "none", samples |-> <<>>, raw |-> <<>>, data |-> <<>>,
     bytes |-> <<>>, numChannels |-> 0, raised |-> FALSE, channels |-> <<>>,
     waveformData |-> <<>>]

\* The fields of PromptDj that pauseAudio, loadAudio and stopAudio touch.
Self ==
    [playbackState |-> playbackState, nextStartTime |-> nextStartTime,
     masterGain |-> masterGain, outputNode |-> outputNode,
     chainInputs |-> chainInputs]

Assign(r) ==
    /\ playbackState' = r.playbackState
    /\ nextStartTime' = r.nextStartTime
    /\ masterGain' = r.masterGain
    /\ outputNode' = r.outputNode
    /\ chainInputs' = r.chainInputs

\* The record of a handler run kept in ev.
ChunkEvent(id, d, outcome) ==
    [op |-> "chunk", id |-> id, t |-> now, dur |-> d,
     cursor0 |-> nextStartTime, state0 |-> playbackState, run0 |-> run,
     outcome |-> outcome]

\* ev after a handler that calls stopAudio() (op: "stop", "error", "close").
StopEvent(op) ==
    [op |-> op, id |-> 0, t |-> now, dur |-> 0, cursor0 |-> nextStartTime,
     state0 |-> playbackState, run0 |-> run, outcome |-> "none"]

\* ev after any other handler.
OtherEvent ==
    [op |-> "other", id |-> 0, t |-> 0, dur |-> 0, cursor0 |-> 0,
     state0 |-> "stopped", run0 |-> 0, outcome |-> "none"]

\* ------------------------------------------------- pauseAudio / load / stop
\* pauseAudio(): a fresh GainNode becomes outputNode and is connected to the
\* low-pass filter; the previous outputNode is not disconnected.
pauseAudio(s) ==
    [s EXCEPT !.playbackState = "paused",
              !.masterGain = 0,
              !.nextStartTime = 0,
              !.outputNode = s.outputNode + 1,
              !.chainInputs = s.chainInputs \cup {s.outputNode + 1}]

loadAudio(s) ==
    [s EXCEPT !.playbackState = "loading", !.masterGain = 1]

\* stopAudio() that leaves the cursor where it was.
stopAudioKeepsCursor(s) ==
    [s EXCEPT !.playbackState = "stopped", !.masterGain = 1]

stopAudio(s) ==
    [s EXCEPT !.playbackState = "stopped",
              !.masterGain = 1,
              !.nextStartTime = 0]

\* ------------------------------------------------------ the chunk handler
\* if (playbackState === 'paused' || playbackState === 'stopped') return;
AcceptsChunks(st) == st \notin {"paused", "stopped"}

\* The cursor initialised without the lead buffer.
LeadStartNoBuffer(t) == t

\* The lead buffer taken as 2 tenths of a second instead of 2 seconds.
LeadStartShort(t) == t + 2

\* this.nextStartTime = this.audioContext.currentTime + this.bufferTime
LeadStart(t) == t + bufferTime

\* The underrun test delayed by the lead buffer.
IsUnderrunLate(cursor, t) == cursor + bufferTime < t

\* if (this.nextStartTime < this.audioContext.currentTime)
IsUnderrun(cursor, t) == cursor < t

\* The cursor advanced past the end of the segment.
AdvanceGap(cursor, d) == cursor + d + 1

\* The cursor left where the segment starts.
AdvanceNone(cursor, d) == cursor

\* The cursor moved back by the duration of the segment.
AdvanceBackwards(cursor, d) == cursor - d

\* this.nextStartTime += audioBuffer.duration
Advance(cursor, d) == cursor + d

\* The lead timer leaving the player in 'loading'.
LeadTimerStaysLoading == "loading"

\* setTimeout(() => { this.playbackState = 'playing'; }, ...)
LeadTimerTarget == "playing"

\* The environment (server messages, user input) acts up to MaxTime.
EnvNow == now <= MaxTime

\* A handler that resets the cursor through pauseAudio() or stopAudio().
Interrupted(r) ==
    /\ run' = 0
    /\ runAt' = 0
    /\ recover' = "none"
    /\ Assign(r)

\* ===================================== the effects chain and the Kaoss pad
\* Gains, mixes and the delay feedback are counted in units of 1 / GainOne,
\* frequencies in Hz, the delay time, the wall clock (Date.now()) and ramp
\* lengths in milliseconds, the phaser rate and the distortion amount in
\* hundredths, pad coordinates in hundredths of the pad's width and height.
GainOne == 10000

\* const rampTime = time + 0.02
rampTime == 20
\* if (now - this.kaossLastTap < 300)
doubleTapWindow == 300
\* const releaseTime = 0.25; setTimeout(..., releaseTime * 1000)
releaseTime == 250

\* The wall clock is sampled every WallStep ms (WallTick) ...
WallStep == 100
\* ... and the user acts up to MaxWall ms after the first sample.
MaxWall == 200
\* Release timers pending at once.
MaxReleaseTimers == 1

\* fx-change events: the label and value of the slider that was moved.
ControlChanges == {<<"Delay Fbk", 12000>>, <<"Rate", 2>>, <<"BPM", 100>>}

\* The effects handleFxToggle is called with.
FxToggles == {"Bit Crush"}

\* fx-change events of the effects panel: a mix of a half, and a distortion
\* amount of a half.
PanelChanges ==
    {<<"Phaser Mix", 5000>>, <<"Delay Mix", 5000>>, <<"Reverb", 5000>>,
     <<"Distort", 50>>}

\* The effects whose buttons are clicked on the effects panel.
PanelToggles == {"Bit Crush", "Distortion", "Phaser", "Delay", "Reverb"}

\* The options of the program select.
KaossPrograms == {"LPF Sweep Delay", "HPF + Reverb Wash"}

\* Pointer positions over the pad after clamping to [0, 1]: the top left
\* and the bottom right corner.
PadPositions == {[x |-> 0, y |-> 0], [x |-> 100, y |-> 100]}

\* The AudioParams updateFxChain ramps.
Params ==
    {"lowPassFilter.frequency", "highPassFilter.frequency",
     "bitCrusherBypass.gain", "distortionBypass.gain",
     "phaserLFO.frequency", "phaserLfoGain.gain", "phaserWet.gain",
     "phaserBypass.gain", "delayNode.delayTime", "delayFeedbackGain.gain",
     "delayWet.gain", "delayBypass.gain", "reverbWet.gain",
     "reverbBypass.gain", "vinylNoiseGain.gain"}

\* The effect state after the field initialisers.
FxState0 ==
    [lowPassFreq |-> 22050, highPassFreq |-> 20, reverbMix |-> 0,
     delayTime |-> 500, delayFeedback |-> 3000, delayMix |-> 0,
     distortionAmount |-> 0, phaserRate |-> 50, phaserMix |-> 0,
     bitDepth |-> 8, sampleRateReduction |-> 4, vinylCrackle |-> 0,
     isLpfOn |-> TRUE, isHpfOn |-> TRUE, isReverbOn |-> TRUE,
     isDelayOn |-> TRUE, isDistortionOn |-> TRUE, isPhaserOn |-> TRUE,
     isBitCrusherOn |-> FALSE, isVinylSimOn |-> FALSE]

\* The Kaoss pad after the field initialisers.  listening: handleKaossPointerMove
\* and handleKaossPointerUp are registered on window; releaseTimers: the due
\* times of the pending setTimeout(..., releaseTime * 1000).
Kaoss0 ==
    [kaossXY |-> [x |-> 50, y |-> 50], isKaossActive |-> FALSE,
     isKaossHeld |-> FALSE, activeKaossProgram |-> "LPF Sweep Delay",
     kaossLastTap |-> 0, listening |-> FALSE, releaseTimers |-> <<>>]

\* What a handler has issued to the audio graph.
Command(param, kind, value, after) ==
    [param |-> param, kind |-> kind, value |-> value, after |-> after]

\* The targets updateFxChain ramps the AudioParams to.
RampTargets(s) ==
    [p \in Params |->
        CASE p = "lowPassFilter.frequency" ->
                 IF s.isLpfOn THEN s.lowPassFreq ELSE 22050
          [] p = "highPassFilter.frequency" ->
                 IF s.isHpfOn THEN s.highPassFreq ELSE 20
          [] p = "bitCrusherBypass.gain" ->
                 IF s.isBitCrusherOn THEN 0 ELSE GainOne
          [] p = "distortionBypass.gain" ->
                 IF s.isDistortionOn THEN 0 ELSE GainOne
          [] p = "phaserLFO.frequency" -> s.phaserRate
          [] p = "phaserLfoGain.gain" -> 2000
          [] p = "phaserWet.gain" -> s.phaserMix
          [] p = "phaserBypass.gain" ->
                 IF s.isPhaserOn THEN GainOne - s.phaserMix ELSE GainOne
          [] p = "delayNode.delayTime" -> s.delayTime
          [] p = "delayFeedbackGain.gain" -> s.delayFeedback
          [] p = "delayWet.gain" -> s.delayMix
          [] p = "delayBypass.gain" ->
                 IF s.isDelayOn THEN GainOne - s.delayMix ELSE GainOne
          [] p = "reverbWet.gain" -> s.reverbMix
          [] p = "reverbBypass.gain" ->
                 IF s.isReverbOn THEN GainOne - s.reverbMix ELSE GainOne
          [] p = "vinylNoiseGain.gain" ->
                 IF s.isVinylSimOn THEN s.vinylCrackle ELSE 0]

\* The outputs of distortionNode: the constructor connects it to the phaser
\* stage, and no handler disconnects it.
DistortionOutputs == {"phaserBypass", "phaserStages[0]"}

\* makeDistortionCurve(amount) at the input x, input and output in units of
\* 1 / GainOne: (3 + k) * x * 20 * deg / (Math.PI + k * Math.abs(x)) with
\* k = amount * 100, deg = Math.PI / 180 and 355 / 113 for Math.PI.
makeDistortionCurve(amount, x) ==
    LET k == amount
        abs == IF x < 0 THEN -x ELSE x
    IN  ((3 + k) * x * 355)
            \div (9 * (355 + (113 * k * abs) \div GainOne))

\* The bit crusher's outputs flipped by every call.
BitCrusherOutputsFlip(on, outputs) ==
    IF outputs = {} THEN {"distortionNode", "distortionBypass"} ELSE {}

\* The outputs of bitCrusherNode after updateFxChain's connect / disconnect.
\* connect() to a node that is connected already changes nothing.
BitCrusherOutputs(on, outputs) ==
    IF on THEN outputs \cup {"distortionNode", "distortionBypass"} ELSE {}

\* The graph the constructor builds: bitCrusherNode is connected to both
\* inputs of the distortion stage, then updateFxChain() runs.
\* fresh: updateFxChain issued the last commands the graph has received.
Graph0 ==
    [targets |-> RampTargets(FxState0),
     bitCrusherOutputs |->
         BitCrusherOutputs(FxState0.isBitCrusherOn,
                           {"distortionNode", "distortionBypass"}),
     curve |-> FxState0.distortionAmount,
     fresh |-> TRUE]

\* updateFxChain() on the component c: c.fx the effect state, c.graph the
\* audio graph, c.issued the commands issued by the running handler, c.calls
\* the calls of updateFxChain it has made and c.written the effect state at
\* the start of the last of them.
updateFxChain(c) ==
    LET targets == RampTargets(c.fx)
    IN  [c EXCEPT
            !.written = c.fx,
            !.graph = [targets |-> targets,
                       bitCrusherOutputs |->
                           BitCrusherOutputs(c.fx.isBitCrusherOn,
                                             c.graph.bitCrusherOutputs),
                       curve |-> c.fx.distortionAmount,
                       fresh |-> TRUE],
            !.issued = @ \cup
                {Command(p, "ramp", targets[p], rampTime) : p \in Params}
                \cup {Command("bitCrusherNode",
                              IF c.fx.isBitCrusherOn THEN "connect"
                              ELSE "disconnect", 0, 0),
                      Command("distortionNode.curve", "assign",
                              c.fx.distortionAmount, 0)},
            !.calls = @ + 1]

\* param.cancelScheduledValues(time)
cancelScheduledValues(c, param) ==
    [c EXCEPT !.issued = @ \cup {Command(param, "cancel", 0, 0)}]

\* param.linearRampToValueAtTime(value, time + after) outside updateFxChain
linearRampToValueAtTime(c, param, value, after) ==
    [c EXCEPT !.graph.targets[param] = value,
              !.graph.fresh = FALSE,
              !.issued = @ \cup {Command(param, "ramp", value, after)}]

\* The fields handleControlChange assigns for a label (none for the labels
\* of the music generation config).
ControlWrite(s, label, value) ==
    CASE label = "LPF" -> [s EXCEPT !.lowPassFreq = value]
      [] label = "HPF" -> [s EXCEPT !.highPassFreq = value]
      [] label = "Distort" -> [s EXCEPT !.distortionAmount = value]
      [] label = "Phaser Rate" -> [s EXCEPT !.phaserRate = value]
      [] label = "Phaser Mix" -> [s EXCEPT !.phaserMix = value]
      [] label = "Delay Time" -> [s EXCEPT !.delayTime = value]
      [] label = "Delay Fbk" -> [s EXCEPT !.delayFeedback = value]
      [] label = "Delay Mix" -> [s EXCEPT !.delayMix = value]
      [] label = "Reverb" -> [s EXCEPT !.reverbMix = value]
      [] label = "Bits" -> [s EXCEPT !.bitDepth = value]
      [] label = "Rate" -> [s EXCEPT !.sampleRateReduction = value]
      [] label = "Crackle" -> [s EXCEPT !.vinylCrackle = value]
      [] OTHER -> s

\* configChanged: the label is one of the music generation config.
ConfigChanged(label) == label \in {"BPM", "Temp", "Diversity", "Guidance"}

\* bitCrusherProcess reads this.bitDepth and this.sampleRateReduction on every
\* audio block: an assignment to either reaches the stage as it is made.
BitCrusherWrite(c, label, value) ==
    IF label \in {"Bits", "Rate"}
    THEN [c EXCEPT !.issued = @ \cup
              {Command(IF label = "Bits" THEN "bitCrusherNode.bitDepth"
                       ELSE "bitCrusherNode.sampleRateReduction",
                       "assign", value, 0)}]
    ELSE c

\* handleControlChange(e) with e.detail = {value, label}
handleControlChange(c, label, value) ==
    LET c1 == BitCrusherWrite(
                  [c EXCEPT !.fx = ControlWrite(c.fx, label, value)],
                  label, value)
    IN  IF ConfigChanged(label) THEN c1 ELSE updateFxChain(c1)

\* handleFxToggle(effect)
handleFxToggle(c, effect) ==
    LET s == c.fx
        s1 == CASE effect = "LPF" -> [s EXCEPT !.isLpfOn = ~@]
                [] effect = "HPF" -> [s EXCEPT !.isHpfOn = ~@]
                [] effect = "Distortion" -> [s EXCEPT !.isDistortionOn = ~@]
                [] effect = "Phaser" -> [s EXCEPT !.isPhaserOn = ~@]
                [] effect = "Delay" -> [s EXCEPT !.isDelayOn = ~@]
                [] effect = "Reverb" -> [s EXCEPT !.isReverbOn = ~@]
                [] effect = "Bit Crush" -> [s EXCEPT !.isBitCrusherOn = ~@]
                [] effect = "Vinyl Sim" -> [s EXCEPT !.isVinylSimOn = ~@]
                [] OTHER -> s
    IN  updateFxChain([c EXCEPT !.fx = s1])

\* lo * Math.pow(hi / lo, x) at the edges of the pad (x = 0 and x = 1)
Sweep(lo, hi, x) == IF x = 0 THEN lo ELSE hi

\* A program whose delay feedback grows by what the position gives.
KaossWriteAccumulates(s, program, xy) ==
    LET invertedY == 100 - xy.y
    IN  CASE program = "LPF Sweep Delay" ->
                 [s EXCEPT !.lowPassFreq = Sweep(100, 18000, xy.x),
                           !.delayFeedback = @ + invertedY * 85,
                           !.delayMix = 2000 + invertedY * 70,
                           !.isLpfOn = TRUE, !.isDelayOn = TRUE,
                           !.isHpfOn = FALSE, !.isReverbOn = FALSE,
                           !.reverbMix = 0]
          [] program = "HPF + Reverb Wash" ->
                 [s EXCEPT !.highPassFreq = Sweep(60, 2000, xy.x),
                           !.reverbMix = @ + invertedY * 65,
                           !.isHpfOn = TRUE, !.isReverbOn = TRUE,
                           !.isLpfOn = FALSE, !.isDelayOn = FALSE,
                           !.delayMix = 0]
          [] OTHER -> s

\* The assignments of updateKaossFx's switch for the program and position.
KaossWrite(s, program, xy) ==
    LET invertedY == 100 - xy.y
    IN  CASE program = "LPF Sweep Delay" ->
                 [s EXCEPT !.lowPassFreq = Sweep(100, 18000, xy.x),
                           !.delayFeedback = invertedY * 85,
                           !.delayMix = 2000 + invertedY * 70,
                           !.isLpfOn = TRUE, !.isDelayOn = TRUE,
                           !.isHpfOn = FALSE, !.isReverbOn = FALSE,
                           !.reverbMix = 0]
          [] program = "HPF + Reverb Wash" ->
                 [s EXCEPT !.highPassFreq = Sweep(60, 2000, xy.x),
                           !.reverbMix = 1500 + invertedY * 65,
                           !.isHpfOn = TRUE, !.isReverbOn = TRUE,
                           !.isLpfOn = FALSE, !.isDelayOn = FALSE,
                           !.delayMix = 0]
          [] OTHER -> s

\* updateKaossFx() with this.kaossXY = xy and this.activeKaossProgram = program
updateKaossFx(c, program, xy) ==
    updateFxChain([c EXCEPT !.fx = KaossWrite(c.fx, program, xy)])

\* A reset that leaves the filters where the gesture put them.
resetFxToNeutralKeepsFilters(c) ==
    updateFxChain([c EXCEPT !.fx.reverbMix = 0, !.fx.delayMix = 0])

\* resetFxToNeutral()
resetFxToNeutral(c) ==
    updateFxChain([c EXCEPT !.fx.reverbMix = 0, !.fx.delayMix = 0,
                            !.fx.lowPassFreq = 22050,
                            !.fx.highPassFreq = 20])

\* Date.now() when the page has loaded: no earlier than doubleTapWindow
\* after the epoch, where kaossLastTap starts.
WallStart == doubleTapWindow

\* fxEv when no effects handler has run at this clock value.
NoFxEvent ==
    [op |-> "none", kept |-> DOMAIN FxState0, sameGraph |-> TRUE,
     fresh0 |-> TRUE, held0 |-> FALSE, active0 |-> FALSE, lastTap0 |-> 0,
     timers0 |-> <<>>, program0 |-> "LPF Sweep Delay", issued |-> {},
     calls |-> 0, readOnly |-> TRUE]

\* A program change that resets the effects to neutral first.
programChangeNeutralizes(c, program, xy, active) ==
    IF active THEN updateKaossFx(resetFxToNeutral(c), program, xy)
    ELSE resetFxToNeutral(c)

\* handleKaossProgramChange(e) after this.activeKaossProgram = program:
\* if (this.isKaossActive) this.updateKaossFx()
programChange(c, program, xy, active) ==
    IF active THEN updateKaossFx(c, program, xy) ELSE c

\* A double tap taken up to and including the window.
IsDoubleTapInclusive(t, lastTap) == t - lastTap <= doubleTapWindow

\* if (now - this.kaossLastTap < 300)
IsDoubleTap(t, lastTap) == t - lastTap < doubleTapWindow

\* ========================================================= the bit crusher
\* A sample is counted in units of 1 / QuantOne, so that the quantisation
\* step 0.5 ^ bitDepth is a whole number of units for bitDepth up to 8.
QuantOne == 256

\* createScriptProcessor(4096, 2, 2): the frames of one processing block,
\* scaled down.
BlockLength == 4
\* Processing blocks over the run.
MaxBlocks == 3
\* The 'Rate' slider (min 1, step 1) is set to 1..MaxRate.
MaxRate == 3

\* The 'Bits' slider: its minimum and the initial bitDepth.
BitDepths == {1, 8}

\* The frames <<left, right>> of an input block.
CrusherFrames == {<<-96, 100>>, <<100, -96>>}

\* Math.pow(0.5, this.bitDepth)
QuantStep(bitDepth) == QuantOne \div (2 ^ bitDepth)

\* step * Math.floor(x / step + 0.5)
Quantize(x, step) == step * ((2 * x + step) \div (2 * step))

\* The bit crusher after the field initialisers and the sliders: the input
\* stream has not started.  consumed: the frames of the blocks processed so
\* far; lastAt: the position in the stream of the frame held in
\* bitCrusherLastSample (-1: none); sources: for every output frame so far,
\* the position in the stream of the input frame it holds.
Crusher0(rate, bitDepth) ==
    [sampleRateReduction |-> rate, bitDepth |-> bitDepth,
     bitCrusherLastSample |-> <<0, 0>>, output |-> <<>>,
     consumed |-> 0, lastAt |-> -1, sources |-> <<>>]

\* The body of bitCrusherProcess's loop from index i on.  i % srr === 0 is
\* false when srr is 0 (NaN).  Math.round leaves a slider value, a whole
\* number, as it is.
RECURSIVE bitCrusherLoop(_, _, _)
bitCrusherLoop(c, input, i) ==
    IF i >= Len(input) THEN c
    ELSE LET step == QuantStep(c.bitDepth)
             srr == c.sampleRateReduction
             captures == srr # 0 /\ i % srr = 0
             last == IF captures THEN input[i + 1]
                     ELSE c.bitCrusherLastSample
             lastAt == IF captures THEN c.consumed + i ELSE c.lastAt
         IN  bitCrusherLoop(
                 [c EXCEPT !.bitCrusherLastSample = last,
                           !.lastAt = lastAt,
                           !.output = Append(@, <<Quantize(last[1], step),
                                                  Quantize(last[2], step)>>),
                           !.sources = Append(@, lastAt)],
                 input, i + 1)

\* bitCrusherProcess(e) with e.inputBuffer = input
bitCrusherProcess(c, input) ==
    LET d == bitCrusherLoop([c EXCEPT !.output = <<>>], input, 0)
    IN  [d EXCEPT !.consumed = @ + Len(input)]

SchedInit ==
    /\ now = 0
    /\ playbackState = "stopped"
    /\ nextStartTime = 0
    /\ connectionError = TRUE
    /\ session = "none"
    /\ outputNode = 0
    /\ chainInputs = {0}
    /\ masterGain = 1
    /\ leadTimers = <<>>
    /\ resetTimers = <<>>
    /\ segments = <<>>
    /\ nArr = 0
    /\ run = 0
    /\ runAt = 0
    /\ awaitingPlay = FALSE
    /\ recover = "none"
    /\ ev = OtherEvent

\* The effects chain and the Kaoss pad after construction.
FxInit ==
    /\ fx = FxState0
    /\ kaoss = Kaoss0
    /\ graph = Graph0
    /\ wallClock = WallStart
    /\ fxEv = NoFxEvent

\* The effects chain and the Kaoss pad left out: the specifications of the
\* scheduler and of the codec, whose handlers and functions neither read
\* nor write them, carry no effect state.
FxLeftOut ==
    /\ fx = <<>>
    /\ kaoss = <<>>
    /\ graph = <<>>
    /\ wallClock = 0
    /\ fxEv = <<>>

\* The bit crusher left out: no audio block is processed.
CrusherLeftOut == crusher = <<>>

\* The prompts left out: no prompt is added or removed.
PromptsLeftOut ==
    /\ prompts = {}
    /\ nextPromptId = 0
    /\ storedPrompts = {}
    /\ promptEv = <<>>

Init ==
    /\ SchedInit
    /\ codec = CodecIdle
    /\ FxLeftOut
    /\ CrusherLeftOut
    /\ PromptsLeftOut

\* onmessage with e.setupComplete
OnSetupComplete ==
    /\ UNCHANGED <<codecVars, fxVars, crusherVars, promptVars>>
    /\ EnvNow
    /\ session = "open"
    /\ connectionError
    /\ connectionError' = FALSE
    /\ ev' = OtherEvent
    /\ UNCHANGED <<now, playbackState, nextStartTime, session, outputNode,
                   chainInputs, masterGain, leadTimers, resetTimers,
                   segments, nArr, run, runAt, awaitingPlay, recover>>

\* onmessage with e.serverContent.audioChunks[0].data, a chunk of duration d
OnAudioChunk(d) ==
    /\ UNCHANGED <<codecVars, fxVars, crusherVars, promptVars>>
    /\ EnvNow
    /\ session = "open"
    /\ nArr < MaxChunks
    /\ nArr' = nArr + 1
    /\ UNCHANGED <<now, connectionError, session, outputNode, chainInputs,
                   masterGain, resetTimers, awaitingPlay>>
    /\ IF ~AcceptsChunks(playbackState)
       THEN /\ ev' = ChunkEvent(nArr + 1, d, "ignored")
            /\ UNCHANGED <<playbackState, nextStartTime, leadTimers, segments,
                           run, runAt, recover>>
       ELSE LET fresh == nextStartTime = 0
                cursor == IF fresh THEN LeadStart(now) ELSE nextStartTime
            IN  /\ leadTimers' = IF fresh
                                 THEN Append(leadTimers, now + bufferTime)
                                 ELSE leadTimers
                /\ IF IsUnderrun(cursor, now)
                   THEN /\ playbackState' = "loading"
                        /\ nextStartTime' = 0
                        /\ run' = 0
                        /\ runAt' = 0
                        /\ recover' = "underrun"
                        /\ ev' = ChunkEvent(nArr + 1, d, "dropped")
                        /\ UNCHANGED segments
                   ELSE /\ segments' = Append(segments,
                                [id |-> nArr + 1, start |-> cursor, dur |-> d,
                                 node |-> outputNode, run |-> run + 1])
                        /\ nextStartTime' = Advance(cursor, d)
                        /\ run' = run + 1
                        /\ runAt' = IF run = 0 THEN now ELSE runAt
                        /\ recover' = IF recover = "underrun" THEN "rearmed"
                                      ELSE recover
                        /\ ev' = ChunkEvent(nArr + 1, d, "scheduled")
                        /\ UNCHANGED playbackState

\* onerror / onclose: connectionError = true; stopAudio()
OnError ==
    /\ UNCHANGED <<codecVars, fxVars, crusherVars, promptVars>>
    /\ EnvNow
    /\ session = "open"
    /\ connectionError' = TRUE
    /\ Interrupted(stopAudio(Self))
    /\ ev' = StopEvent("error")
    /\ UNCHANGED <<now, session, leadTimers, resetTimers,
                   segments, nArr, awaitingPlay>>

OnClose ==
    /\ UNCHANGED <<codecVars, fxVars, crusherVars, promptVars>>
    /\ EnvNow
    /\ session = "open"
    /\ session' = "closed"
    /\ connectionError' = TRUE
    /\ Interrupted(stopAudio(Self))
    /\ ev' = StopEvent("close")
    /\ UNCHANGED <<now, leadTimers, resetTimers, segments,
                   nArr, awaitingPlay>>

\* -------------------------------------------------------------- user input
\* firstUpdated(): await this.connectToSession() resolves and sets this.session
FirstUpdated ==
    /\ UNCHANGED <<codecVars, fxVars, crusherVars, promptVars>>
    /\ EnvNow
    /\ session = "none"
    /\ session' = "open"
    /\ ev' = OtherEvent
    /\ UNCHANGED <<now, playbackState, nextStartTime, connectionError,
                   outputNode, chainInputs, masterGain, leadTimers,
                   resetTimers, segments, nArr, run, runAt, awaitingPlay, recover>>

\* handlePlayPause(): the click on the play/pause button.  In the branch
\* that reconnects, connectToSession() resolves (a rejection ends the
\* handler with nothing changed).
HandlePlayPause ==
    /\ UNCHANGED <<codecVars, fxVars, crusherVars, promptVars>>
    /\ EnvNow
    /\ ev' = IF playbackState = "loading" THEN StopEvent("stop") ELSE OtherEvent
    /\ UNCHANGED <<now, connectionError, leadTimers, resetTimers, segments,
                   nArr>>
    /\ CASE playbackState = "playing" ->
              /\ outputNode < MaxNodes
              /\ Interrupted(pauseAudio(Self))
              /\ awaitingPlay' = TRUE
              /\ UNCHANGED session
         [] playbackState \in {"paused", "stopped"} ->
              /\ session' = IF connectionError THEN "open" ELSE session
              /\ Assign(loadAudio(Self))
              /\ awaitingPlay' = FALSE
              /\ UNCHANGED <<run, runAt, recover>>
         [] playbackState = "loading" ->
              /\ Interrupted(stopAudio(Self))
              /\ UNCHANGED <<session, awaitingPlay>>

\* handleReset(): the click on the reset button: (re)connects when
\* connectionError, then pauseAudio() and setTimeout(loadAudio, 100)
HandleReset ==
    /\ UNCHANGED <<codecVars, fxVars, crusherVars, promptVars>>
    /\ EnvNow
    /\ outputNode < MaxNodes
    /\ session' = IF connectionError THEN "open" ELSE session
    /\ Interrupted(pauseAudio(Self))
    /\ awaitingPlay' = TRUE
    /\ resetTimers' = Append(resetTimers, now + resetDelay)
    /\ ev' = OtherEvent
    /\ UNCHANGED <<now, connectionError, leadTimers, segments, nArr>>

\* setSessionPrompts(): session.setWeightedPrompts rejects; catch: pauseAudio()
PromptSendFails ==
    /\ UNCHANGED <<codecVars, fxVars, crusherVars, promptVars>>
    /\ EnvNow
    /\ session # "none"
    /\ outputNode < MaxNodes
    /\ Interrupted(pauseAudio(Self))
    /\ awaitingPlay' = TRUE
    /\ ev' = OtherEvent
    /\ UNCHANGED <<now, connectionError, session, leadTimers, resetTimers,
                   segments, nArr>>

\* ------------------------------------------------------------------ timers
\* The callback of the chunk handler's setTimeout.  The timers all have the
\* same delay, so they fire in the order they were set.
LeadTimerFires ==
    /\ UNCHANGED <<codecVars, fxVars, crusherVars, promptVars>>
    /\ leadTimers # <<>>
    /\ Head(leadTimers) <= now
    /\ leadTimers' = Tail(leadTimers)
    /\ playbackState' = LeadTimerTarget
    /\ recover' = IF recover = "rearmed" THEN "done" ELSE recover
    /\ ev' = OtherEvent
    /\ UNCHANGED <<now, nextStartTime, connectionError, session, outputNode,
                   chainInputs, masterGain, resetTimers, segments, nArr, run, runAt,
                   awaitingPlay>>

\* The callback of handleReset's setTimeout: loadAudio()
ResetTimerFires ==
    /\ UNCHANGED <<codecVars, fxVars, crusherVars, promptVars>>
    /\ resetTimers # <<>>
    /\ Head(resetTimers) <= now
    /\ resetTimers' = Tail(resetTimers)
    /\ Assign(loadAudio(Self))
    /\ awaitingPlay' = FALSE
    /\ ev' = OtherEvent
    /\ UNCHANGED <<now, connectionError, session, leadTimers, segments, nArr,
                   run, runAt, recover>>

TimerPending == leadTimers # <<>> \/ resetTimers # <<>>

TimerDue ==
    \/ \E i \in 1..Len(leadTimers) : leadTimers[i] <= now
    \/ \E i \in 1..Len(resetTimers) : resetTimers[i] <= now

\* The clock advances by d.  A timer that has come due runs before the clock
\* is sampled again.  Past MaxTime the clock runs on only until the timers
\* that are still pending have come due.
Advances(d) ==
    /\ UNCHANGED <<codecVars, fxVars, crusherVars, promptVars>>
    /\ now < MaxTime \/ TimerPending
    /\ ~TimerDue
    /\ now' = now + d
    /\ ev' = OtherEvent
    /\ UNCHANGED <<playbackState, nextStartTime, connectionError, session,
                   outputNode, chainInputs, masterGain, leadTimers,
                   resetTimers, segments, nArr, run, runAt, awaitingPlay, recover>>

Tick == Advances(TickStep)

Next ==
    \/ OnSetupComplete
    \/ \E d \in Durations : OnAudioChunk(d)
    \/ OnError
    \/ OnClose
    \/ HandlePlayPause
    \/ HandleReset
    \/ PromptSendFails
    \/ FirstUpdated
    \/ LeadTimerFires
    \/ ResetTimerFires
    \/ Tick

Spec == Init /\ [][Next]_vars


\* ------------------------------------------- a scheduler fed without breaks
\* The same handlers on a clock sampled every tenth of a second, with a user
\* who presses play and then leaves the player alone, and a connection that
\* stays up.  The clock starts with the first buffered chunk.
PlayClicked ==
    /\ playbackState \in {"paused", "stopped"}
    /\ HandlePlayPause

FineTick ==
    /\ nextStartTime # 0 \/ TimerPending
    /\ Advances(1)

FineNext ==
    \/ FirstUpdated
    \/ OnSetupComplete
    \/ PlayClicked
    \/ \E d \in Durations : OnAudioChunk(d)
    \/ LeadTimerFires
    \/ FineTick

FineSpec == Init /\ [][FineNext]_vars

\* Pending timers eventually fire: the clock advances and a due callback runs.
FairFineSpec == FineSpec /\ WF_vars(FineTick) /\ WF_vars(LeadTimerFires)

\* ------------------------------------------------ the codec on one input
\* The functions of src/utils.ts applied in the order the data flows: a
\* buffer of float samples goes through createBlobFromFloat32, a buffer of
\* bytes through encode; the text goes through decode, and the bytes through
\* decodeAudioData with a channel count.
SampleInput(b) ==
    [CodecIdle EXCEPT !.stage = "samples", !.origin = "samples",
                      !.samples = b]

ByteInput(b) ==
    [CodecIdle EXCEPT !.stage = "raw", !.origin = "raw", !.raw = b]

\* The channel of a resampled buffer with one channel.
MonoInput(b) ==
    [CodecIdle EXCEPT !.stage = "mono", !.origin = "mono", !.samples = b]

CodecInit ==
    /\ SchedInit
    /\ FxLeftOut
    /\ CrusherLeftOut
    /\ PromptsLeftOut
    /\ codec \in {SampleInput(b) : b \in SeqsUpTo(SampleValues, MaxSamples)}
                 \cup {ByteInput(b) : b \in SeqsUpTo(ByteValues, MaxBytes)}
                 \cup {ByteInput(b) :
                           b \in SeqsUpTo(FrameByteValues, MaxFrameBytes)}
                 \cup {MonoInput(b) : b \in MonoChannels}

CreateBlob ==
    /\ codec.stage = "samples"
    /\ codec' = [codec EXCEPT !.stage = "blob",
                              !.raw = PcmBytes(codec.samples),
                              !.data = createBlobFromFloat32(codec.samples)]
    /\ UNCHANGED <<schedVars, fxVars, crusherVars, promptVars>>

Encode ==
    /\ codec.stage = "raw"
    /\ codec' = [codec EXCEPT !.stage = "blob", !.data = encode(codec.raw)]
    /\ UNCHANGED <<schedVars, fxVars, crusherVars, promptVars>>

Decode ==
    /\ codec.stage = "blob"
    /\ LET r == decode(codec.data)
       IN  codec' = [codec EXCEPT !.stage = "bytes", !.raised = r.threw,
                                  !.bytes = r.value]
    /\ UNCHANGED <<schedVars, fxVars, crusherVars, promptVars>>

DecodeAudio(numChannels) ==
    /\ codec.stage = "bytes"
    /\ ~codec.raised
    /\ LET r == decodeAudioData(codec.bytes, numChannels)
       IN  codec' = [codec EXCEPT !.stage = "buffer",
                                  !.numChannels = numChannels,
                                  !.raised = r.raised,
                                  !.channels = r.channels]
    /\ UNCHANGED <<schedVars, fxVars, crusherVars, promptVars>>

\* resampleAndEncodeAudio from the mono channel on: the waveform data, then
\* createBlobFromFloat32(monoChannel)
ResampleAndEncode ==
    /\ codec.stage = "mono"
    /\ codec' = [codec EXCEPT !.stage = "waveform",
                              !.waveformData = Waveform(codec.samples),
                              !.raw = PcmBytes(codec.samples),
                              !.data = createBlobFromFloat32(codec.samples)]
    /\ UNCHANGED <<schedVars, fxVars, crusherVars, promptVars>>

CodecNext ==
    \/ ResampleAndEncode
    \/ CreateBlob
    \/ Encode
    \/ Decode
    \/ \E numChannels \in 1..MaxChannels : DecodeAudio(numChannels)

CodecSpec == CodecInit /\ [][CodecNext]_vars

\* ------------------------------------- the effects chain and the Kaoss pad
\* The component as a handler finds it: nothing issued, no call made.
Component ==
    [fx |-> fx, graph |-> graph, issued |-> {}, calls |-> 0, written |-> fx]

\* The record of a handler run kept in fxEv: the fields of the effect state
\* it has left as they were (kept), whether it has left the graph's targets
\* and connections as they were, the Kaoss fields it found, what it issued
\* to the graph, its calls of updateFxChain, and whether the last of them
\* left the effect state as it found it.
FxEvent(op, c) ==
    [op |-> op,
     kept |-> {f \in DOMAIN fx : c.fx[f] = fx[f]},
     sameGraph |-> /\ c.graph.targets = graph.targets
                   /\ c.graph.bitCrusherOutputs = graph.bitCrusherOutputs,
     fresh0 |-> graph.fresh,
     held0 |-> kaoss.isKaossHeld,
     active0 |-> kaoss.isKaossActive,
     lastTap0 |-> kaoss.kaossLastTap,
     timers0 |-> kaoss.releaseTimers,
     program0 |-> kaoss.activeKaossProgram,
     issued |-> c.issued,
     calls |-> c.calls,
     readOnly |-> c.written = c.fx]

Commit(op, c) ==
    /\ fx' = c.fx
    /\ graph' = c.graph
    /\ fxEv' = FxEvent(op, c)

\* The user acts up to MaxWall ms after the first sample of the wall clock.
EnvWall == wallClock <= WallStart + MaxWall

\* The slider that carries the label is enabled (fx-slider's onInput returns
\* when disabled).  No slider of the template carries 'Delay Fbk': the
\* event reaches the handler when it is dispatched at the controls grid.
SliderEnabled(label) ==
    CASE label = "LPF" -> fx.isLpfOn
      [] label = "HPF" -> fx.isHpfOn
      [] label \in {"Bits", "Rate"} -> fx.isBitCrusherOn
      [] label = "Distort" -> fx.isDistortionOn
      [] label = "Phaser Mix" -> fx.isPhaserOn
      [] label = "Delay Mix" -> fx.isDelayOn
      [] label = "Reverb" -> fx.isReverbOn
      [] label = "Crackle" -> fx.isVinylSimOn
      [] OTHER -> TRUE

\* @fx-change=${this.handleControlChange}
ControlChange(label, value) ==
    /\ EnvWall
    /\ SliderEnabled(label)
    /\ Commit("control", handleControlChange(Component, label, value))
    /\ UNCHANGED <<wallClock, kaoss, schedVars, codecVars,
                   crusherVars, promptVars>>

\* @click=${() => this.handleFxToggle(effect)}
FxToggle(effect) ==
    /\ EnvWall
    /\ Commit("toggle", handleFxToggle(Component, effect))
    /\ UNCHANGED <<wallClock, kaoss, schedVars, codecVars,
                   crusherVars, promptVars>>

\* handleKaossPointerDown(e), with the pointer at xy of the pad
KaossPointerDown(xy) ==
    /\ EnvWall
    /\ LET c1 == updateFxChain(
                     cancelScheduledValues(
                         cancelScheduledValues(Component, "reverbWet.gain"),
                         "delayWet.gain"))
       IN  /\ kaoss' = [kaoss EXCEPT
                 !.isKaossActive = TRUE,
                 !.isKaossHeld =
                     IF IsDoubleTap(wallClock, kaoss.kaossLastTap)
                     THEN ~@ ELSE @,
                 !.kaossLastTap = wallClock,
                 !.listening = TRUE,
                 !.kaossXY = xy]
           /\ Commit("pointerdown",
                     updateKaossFx(c1, kaoss.activeKaossProgram, xy))
    /\ UNCHANGED <<wallClock, schedVars, codecVars,
                   crusherVars, promptVars>>

\* handleKaossPointerMove(e), registered on window by the pointer-down
KaossPointerMove(xy) ==
    /\ EnvWall
    /\ kaoss.listening
    /\ IF ~kaoss.isKaossActive
       THEN /\ Commit("pointermove", Component)
            /\ UNCHANGED kaoss
       ELSE /\ kaoss' = [kaoss EXCEPT !.kaossXY = xy]
            /\ Commit("pointermove",
                      updateKaossFx(Component, kaoss.activeKaossProgram, xy))
    /\ UNCHANGED <<wallClock, schedVars, codecVars,
                   crusherVars, promptVars>>

\* handleKaossPointerUp(e), registered on window by the pointer-down
KaossPointerUp ==
    /\ EnvWall
    /\ kaoss.listening
    /\ IF kaoss.isKaossHeld
       THEN /\ kaoss' = [kaoss EXCEPT !.listening = FALSE]
            /\ Commit("pointerup", Component)
       ELSE /\ Len(kaoss.releaseTimers) < MaxReleaseTimers
            /\ kaoss' = [kaoss EXCEPT
                   !.listening = FALSE,
                   !.isKaossActive = FALSE,
                   !.releaseTimers = Append(@, wallClock + releaseTime)]
            /\ Commit("pointerup",
                   linearRampToValueAtTime(
                       cancelScheduledValues(
                           linearRampToValueAtTime(
                               cancelScheduledValues(Component,
                                                     "reverbWet.gain"),
                               "reverbWet.gain", 0, releaseTime),
                           "delayWet.gain"),
                       "delayWet.gain", 0, releaseTime))
    /\ UNCHANGED <<wallClock, schedVars, codecVars,
                   crusherVars, promptVars>>

\* The callback of the pointer-up's setTimeout.  The timers all have the
\* same delay, so they fire in the order they were set.
KaossReleaseTimerFires ==
    /\ kaoss.releaseTimers # <<>>
    /\ Head(kaoss.releaseTimers) <= wallClock
    /\ kaoss' = [kaoss EXCEPT !.releaseTimers = Tail(@)]
    /\ IF kaoss.isKaossActive
       THEN Commit("release", Component)
       ELSE Commit("release", resetFxToNeutral(Component))
    /\ UNCHANGED <<wallClock, schedVars, codecVars,
                   crusherVars, promptVars>>

\* handleKaossProgramChange(e): the select's change event, with its new value
KaossProgramChange(program) ==
    /\ EnvWall
    /\ program # kaoss.activeKaossProgram
    /\ kaoss' = [kaoss EXCEPT !.activeKaossProgram = program]
    /\ Commit("program",
              programChange(Component, program, kaoss.kaossXY,
                            kaoss.isKaossActive))
    /\ UNCHANGED <<wallClock, schedVars, codecVars,
                   crusherVars, promptVars>>

\* @click=${() => this.isKaossHeld = !this.isKaossHeld}, the HOLD button
HoldClicked ==
    /\ EnvWall
    /\ kaoss' = [kaoss EXCEPT !.isKaossHeld = ~@]
    /\ Commit("hold", Component)
    /\ UNCHANGED <<wallClock, schedVars, codecVars,
                   crusherVars, promptVars>>

\* The wall clock advances.  A release timer that has come due runs before
\* the clock is sampled again; past the user's last action the clock runs on
\* until the pending timers have come due.
WallTick ==
    /\ wallClock < WallStart + MaxWall \/ kaoss.releaseTimers # <<>>
    /\ \A i \in 1..Len(kaoss.releaseTimers) :
           kaoss.releaseTimers[i] > wallClock
    /\ wallClock' = wallClock + WallStep
    /\ fxEv' = NoFxEvent
    /\ UNCHANGED <<fx, graph, kaoss, schedVars, codecVars,
                   crusherVars, promptVars>>

FxNext ==
    \/ \E cc \in ControlChanges : ControlChange(cc[1], cc[2])
    \/ \E effect \in FxToggles : FxToggle(effect)
    \/ \E xy \in PadPositions : KaossPointerDown(xy)
    \/ \E xy \in PadPositions : KaossPointerMove(xy)
    \/ KaossPointerUp
    \/ KaossReleaseTimerFires
    \/ \E program \in KaossPrograms : KaossProgramChange(program)
    \/ HoldClicked
    \/ WallTick

\* The effects panel alone: its sliders and its buttons, the pad untouched.
PanelNext ==
    \/ \E cc \in PanelChanges : ControlChange(cc[1], cc[2])
    \/ \E effect \in PanelToggles : FxToggle(effect)

\* The component after construction, with its effects chain and Kaoss pad.
FxSpecInit ==
    /\ SchedInit
    /\ codec = CodecIdle
    /\ FxInit
    /\ CrusherLeftOut
    /\ PromptsLeftOut

FxSpec == FxSpecInit /\ [][FxNext]_vars

PanelSpec == FxSpecInit /\ [][PanelNext]_vars

\* The wall clock advances and a release timer that has come due fires.
FairFxSpec ==
    FxSpec /\ WF_vars(WallTick) /\ WF_vars(KaossReleaseTimerFires)

\* --------------------------------------- the bit crusher on an input stream
\* The stream the high-pass filter feeds the ScriptProcessorNode, block by
\* block, with the sliders left where they were set before it started.
CrusherInit ==
    /\ SchedInit
    /\ codec = CodecIdle
    /\ FxLeftOut
    /\ PromptsLeftOut
    /\ crusher \in {Crusher0(rate, bitDepth) :
                        rate \in 1..MaxRate, bitDepth \in BitDepths}

\* this.bitCrusherNode.onaudioprocess = this.bitCrusherProcess.bind(this)
AudioProcess(input) ==
    /\ crusher.consumed < MaxBlocks * BlockLength
    /\ crusher' = bitCrusherProcess(crusher, input)
    /\ UNCHANGED <<schedVars, codecVars, fxVars, promptVars>>

CrusherNext ==
    \E input \in [1..BlockLength -> CrusherFrames] : AudioProcess(input)

CrusherSpec == CrusherInit /\ [][CrusherNext]_vars

\* ------------------------------------------------------------- the prompts
\* A promptId 'prompt-n' is the number n; this.prompts and the list stored
\* in localStorage map the promptIds to the type of their prompt.

\* The promptIds handleAddPrompt and handleUploadAudio assign stay below this.
MaxPromptId == 6

\* const numDefaultPrompts = Math.min(4, PROMPT_TEXT_PRESETS.length)
numDefaultPrompts == 4

\* getStoredPrompts() with nothing stored: the default text prompts
\* prompt-0 .. prompt-3
defaultPrompts == [i \in 0..numDefaultPrompts - 1 |-> "text"]

\* promptEv when no prompt has been added since the page was loaded.
NoPromptEvent == [op |-> "none", id |-> 0, existed |-> FALSE, size0 |-> 0]

\* The first load of the page: gen() finds nothing stored, the constructor
\* takes the default prompts, and layoutInitialPrompts() stores them.
PromptInit ==
    /\ SchedInit
    /\ codec = CodecIdle
    /\ FxLeftOut
    /\ CrusherLeftOut
    /\ prompts = defaultPrompts
    /\ nextPromptId = Cardinality(DOMAIN defaultPrompts)
    /\ storedPrompts = defaultPrompts
    /\ promptEv = NoPromptEvent

\* newPrompts.set(newPromptId, newPrompt): a prompt with the same promptId is
\* replaced.
MapSet(map, id, prompt) ==
    [i \in DOMAIN map \cup {id} |-> IF i = id THEN prompt ELSE map[i]]

\* handleAddPrompt() (type 'text') and the onchange of handleUploadAudio()
\* with a file that decodes (type 'audio'):
\* const newPromptId = `prompt-${this.nextPromptId++}`; ...;
\* setStoredPrompts(this.prompts)
AddPrompt(type) ==
    /\ nextPromptId < MaxPromptId
    /\ nextPromptId' = nextPromptId + 1
    /\ prompts' = MapSet(prompts, nextPromptId, type)
    /\ storedPrompts' = prompts'
    /\ promptEv' = [op |-> "add", id |-> nextPromptId,
                    existed |-> nextPromptId \in DOMAIN prompts,
                    size0 |-> Cardinality(DOMAIN prompts)]
    /\ UNCHANGED <<schedVars, codecVars, fxVars, crusherVars>>

\* handlePromptRemoved(e) with e.detail = 'prompt-id'
PromptRemoved(id) ==
    /\ id \in DOMAIN prompts
    /\ prompts' = [i \in DOMAIN prompts \ {id} |-> prompts[i]]
    /\ storedPrompts' = prompts'
    /\ promptEv' = [op |-> "remove", id |-> id, existed |-> TRUE,
                    size0 |-> Cardinality(DOMAIN prompts)]
    /\ UNCHANGED <<nextPromptId, schedVars, codecVars, fxVars, crusherVars>>

\* The page is loaded again: gen() reads the stored prompts and constructs
\* PromptDj from them: this.nextPromptId = this.prompts.size
PageReload ==
    /\ prompts' = storedPrompts
    /\ nextPromptId' = Cardinality(DOMAIN storedPrompts)
    /\ promptEv' = NoPromptEvent
    /\ UNCHANGED <<storedPrompts, schedVars, codecVars, fxVars, crusherVars>>

PromptNext ==
    \/ \E type \in {"text", "audio"} : AddPrompt(type)
    \/ \E id \in 0..MaxPromptId - 1 : PromptRemoved(id)
    \/ PageReload

PromptSpec == PromptInit /\ [][PromptNext]_vars

\* ===================================================================== claims
LastSegment == segments[Len(segments)]

\* Segments i < j were started with no cursor reset between them.
SameRun(i, j) == segments[j].run = segments[i].run + (j - i)

\* An unfinished segment: its audio ends after the current clock value.
Unfinished(i) == segments[i].start + segments[i].dur > now

\* C1: two segments started consecutively with no cursor reset between them
\* are gapless: the later one starts where the earlier one ends.
C1_Gapless ==
    \A i \in 1..Len(segments) - 1 :
        SameRun(i, i + 1) =>
            segments[i + 1].start = segments[i].start + segments[i].dur

C1_Witness ==
    /\ Len(segments) >= 2
    /\ SameRun(1, 2)
    /\ segments[1].dur # segments[2].dur

\* C2: a chunk that arrives while the cursor is set and behind the clock is
\* not started; playbackState becomes 'loading' and the cursor the sentinel 0.
C2_UnderrunDrops ==
    (ev.op = "chunk" /\ ev.cursor0 # 0 /\ ev.cursor0 < ev.t) =>
        /\ ev.outcome = "dropped"
        /\ playbackState = "loading"
        /\ nextStartTime = 0
        /\ \A i \in 1..Len(segments) : segments[i].id # ev.id

C2_Witness ==
    /\ ev.op = "chunk"
    /\ ev.cursor0 # 0
    /\ ev.cursor0 < ev.t
    /\ ev.state0 = "playing"

\* C3 (as claimed): between pauseAudio() and the next loadAudio() no chunk
\* is accepted and the cursor stays at the sentinel 0.
C3_PausedAcceptsNothing ==
    awaitingPlay =>
        /\ nextStartTime = 0
        /\ ev.op = "chunk" => ev.outcome = "ignored"

\* C4 (as claimed): a segment started before a pause and not yet played out
\* is connected to a node that no longer feeds the effects chain input.
C4_PausedSegmentsDetached ==
    \A i \in 1..Len(segments) :
        (segments[i].node # outputNode /\ Unfinished(i)) =>
            segments[i].node \notin chainInputs

\* C5 (as claimed): after stopAudio() the cursor is the sentinel 0 and no
\* segment that is not yet played out has a path into the effects chain.
C5_StopCancels ==
    ev.op \in {"stop", "error", "close"} =>
        /\ nextStartTime = 0
        /\ \A i \in 1..Len(segments) :
               Unfinished(i) => segments[i].node \notin chainInputs

\* C6: a chunk that arrives while the cursor is the sentinel 0 and the state
\* accepts chunks is started at currentTime + bufferTime, and the cursor
\* becomes that start time plus the chunk's duration.
C6_LeadBuffer ==
    (ev.op = "chunk" /\ ev.cursor0 = 0
        /\ ev.state0 \in {"loading", "playing"}) =>
        /\ ev.outcome = "scheduled"
        /\ Len(segments) > 0
        /\ LastSegment.id = ev.id
        /\ LastSegment.start = ev.t + bufferTime
        /\ nextStartTime = ev.t + bufferTime + ev.dur

C6_Witness ==
    /\ ev.op = "chunk"
    /\ ev.cursor0 = 0
    /\ ev.state0 = "loading"
    /\ ev.outcome = "scheduled"
    /\ ev.t > 0

\* C7: with no pause, stop or connection failure (the environment of
\* FineSpec) and timers that fire, once a chunk has arrived after an underrun
\* playbackState becomes 'playing' again.
C7_UnderrunRecovers ==
    (recover = "rearmed") ~> (playbackState = "playing")

C7_Witness ==
    /\ recover = "done"
    /\ playbackState = "playing"

\* C8: every accepted chunk is started once, and chunks started with no
\* cursor reset between them start in the order they arrived.
C8_OnceInOrder ==
    /\ \A i, j \in 1..Len(segments) :
           i < j => segments[i].id < segments[j].id
    /\ \A i, j \in 1..Len(segments) :
           (i < j /\ SameRun(i, j)) => segments[i].start < segments[j].start

C8_Witness ==
    /\ Len(segments) >= 3
    /\ SameRun(1, 3)

\* The example: the previous chunk was the first of its run, both chunks
\* last 0.5 s, and this one arrives 2.3 s after the previous one.
ExampleSecondChunk ==
    /\ ev.op = "chunk"
    /\ ev.run0 = 1
    /\ ev.dur = 5
    /\ ev.t = runAt + 23
    /\ \E i \in 1..Len(segments) :
           /\ segments[i].run = 1
           /\ segments[i].dur = 5
           /\ segments[i].id = ev.id - 1

\* C9 (as claimed): in the example the second chunk underruns: it is dropped
\* and playbackState becomes 'loading'.
C9_ExampleUnderruns ==
    ExampleSecondChunk =>
        /\ ev.outcome = "dropped"
        /\ playbackState = "loading"

\* C9 (amended): in the example the first chunk starts at t0 + 2.0 and the
\* second does not underrun: it is started at t0 + 2.5, where the first ends.
C9_ExampleGapless ==
    ExampleSecondChunk =>
        /\ ev.outcome = "scheduled"
        /\ Len(segments) >= 2
        /\ segments[Len(segments) - 1].start = runAt + 20
        /\ LastSegment.id = ev.id
        /\ LastSegment.start = runAt + 25
        /\ nextStartTime = runAt + 30

C9_Witness ==
    /\ ExampleSecondChunk
    /\ ev.outcome = "scheduled"

\* C10: after a session error or close event playbackState is 'stopped', the
\* cursor is the sentinel 0 and connectionError is true.
C10_FailureStops ==
    ev.op \in {"error", "close"} =>
        /\ playbackState = "stopped"
        /\ nextStartTime = 0
        /\ connectionError

C10_Witness ==
    /\ ev.op = "error"
    /\ ev.state0 = "playing"
    /\ ev.cursor0 # 0

\* ------------------------------------------------------------ codec claims
Abs(n) == IF n < 0 THEN -n ELSE n

\* A mono buffer with every value in [-1, 1] has gone through
\* createBlobFromFloat32, decode and decodeAudioData with one channel.
RoundTripDone ==
    /\ codec.stage = "buffer"
    /\ codec.origin = "samples"
    /\ codec.numChannels = 1
    /\ \A i \in 1..Len(codec.samples) : Abs(codec.samples[i]) <= SampleOne

\* The decoded buffer has the length of the input and every sample is within
\* 1/32768 of the input's.
RoundTripClose ==
    /\ ~codec.raised
    /\ Len(codec.channels[1]) = Len(codec.samples)
    /\ \A i \in 1..Len(codec.samples) :
           Abs(codec.channels[1][i] - codec.samples[i]) <= SubSteps

\* C11 (as claimed): for every mono buffer b with values in [-1, 1], decoding
\* the encoding of b gives a buffer of the same length whose samples differ
\* from b's by at most 1/32768.
C11_RoundTrip == RoundTripDone => RoundTripClose

\* C11 (amended): the same for every non-empty buffer; the empty buffer
\* decodes to one silent sample.
C11_RoundTripNonEmpty ==
    RoundTripDone =>
        IF Len(codec.samples) > 0
        THEN RoundTripClose
        ELSE ~codec.raised /\ codec.channels = <<<<0>>>>

C11_Witness ==
    /\ RoundTripDone
    /\ Len(codec.samples) = 2
    /\ codec.samples[1] = SampleOne
    /\ codec.channels[1][1] = SampleOne - SubSteps
    /\ codec.samples[2] = -1
    /\ codec.channels[1][2] = 0

\* The bytes of the whole frames of the input of decodeAudioData.
WholeFrames ==
    SubSeq(codec.bytes, 1,
           2 * codec.numChannels
             * (Len(codec.bytes) \div (2 * codec.numChannels)))

\* C12: decodeAudioData raises for no byte length and channel count >= 1;
\* each channel has floor(byteLength / (2 * channels)) samples when that is
\* positive, the bytes after the last whole frame change nothing, and when
\* it is zero each channel is one silent sample.
C12_DecodeTotal ==
    codec.stage = "buffer" =>
        LET n == Len(codec.bytes) \div (2 * codec.numChannels)
        IN  /\ ~codec.raised
            /\ Len(codec.channels) = codec.numChannels
            /\ \A c \in 1..codec.numChannels :
                   /\ n > 0 => Len(codec.channels[c]) = n
                   /\ n = 0 => codec.channels[c] = <<0>>
            /\ n > 0 => codec.channels
                          = decodeAudioData(WholeFrames,
                                            codec.numChannels).channels

C12_Witness ==
    /\ codec.stage = "buffer"
    /\ codec.numChannels = 2
    /\ Len(codec.bytes) = 5
    /\ codec.channels = <<<<-SubSteps>>, <<SubSteps>>>>

\* round(clamp(s, -1, 1) * 32768) clamped to [-32768, 32767], in 16-bit
\* levels: s is clamped to [-SampleOne, SampleOne] and rounded to nearest.
RoundedLevel(s) ==
    LET c == IF s < -SampleOne THEN -SampleOne
             ELSE IF s > SampleOne THEN SampleOne ELSE s
        r == (2 * c + SubSteps) \div (2 * SubSteps)
    IN  IF r > FullScale - 1 THEN FullScale - 1 ELSE r

\* C13 (as claimed): the encoder maps every sample s to
\* round(clamp(s, -1, 1) * 32768) clamped to [-32768, 32767] and emits two
\* bytes per sample, low byte first.
C13_EncoderRounds ==
    (codec.stage = "blob" /\ codec.origin = "samples") =>
        /\ Len(codec.raw) = 2 * Len(codec.samples)
        /\ \A i \in 1..Len(codec.samples) :
               LET u == (RoundedLevel(codec.samples[i]) + 2 * FullScale)
                            % (2 * FullScale)
               IN  /\ codec.raw[2 * i - 1] = u % 256
                   /\ codec.raw[2 * i] = u \div 256

\* C14: for every byte sequence b, decode(encode(b)) is b.
C14_TextRoundTrip ==
    (codec.stage = "bytes" /\ codec.origin = "raw") =>
        /\ ~codec.raised
        /\ codec.bytes = codec.raw

C14_Witness ==
    /\ codec.stage = "bytes"
    /\ codec.origin = "raw"
    /\ codec.raw = <<0, 255, 128, 1>>

C16_OnlyRamps ==
    \A c \in fxEv.issued :
        /\ c.kind \in {"ramp", "cancel"}
        /\ c.kind = "ramp" => c.after > 0

\* C17: updateFxChain() leaves the effect state as it finds it, and a call
\* that follows a call with the effect state unchanged in between leaves the
\* ramp targets and the connections of the graph as they were.
C17_UpdateIdempotent ==
    fxEv.calls > 0 =>
        /\ fxEv.readOnly
        /\ (fxEv.fresh0 /\ fxEv.kept = DOMAIN fx) => fxEv.sameGraph

C17_Witness ==
    /\ fxEv.op = "pointermove"
    /\ fxEv.calls = 1
    /\ fxEv.fresh0
    /\ fxEv.kept = DOMAIN fx
    /\ fx.isBitCrusherOn
    /\ graph.bitCrusherOutputs # {}

\* C18: a pointer-down toggles the hold latch exactly when it comes less
\* than 300 ms after the previous pointer-down; a pointer-up with the latch
\* set issues no ramp and sets no timer, and with the latch clear it ramps
\* the delay and reverb wet gains to 0 and sets the timer of the reset.
C18_DoubleTapHold ==
    /\ fxEv.op = "pointerdown" =>
           ((kaoss.isKaossHeld # fxEv.held0)
               <=> (wallClock - fxEv.lastTap0 < doubleTapWindow))
    /\ fxEv.op = "pointerup" =>
           IF fxEv.held0
           THEN /\ fxEv.issued = {}
                /\ kaoss.releaseTimers = fxEv.timers0
                /\ fxEv.sameGraph
           ELSE /\ Command("delayWet.gain", "ramp", 0, releaseTime)
                       \in fxEv.issued
                /\ Command("reverbWet.gain", "ramp", 0, releaseTime)
                       \in fxEv.issued
                /\ graph.targets["delayWet.gain"] = 0
                /\ graph.targets["reverbWet.gain"] = 0
                /\ kaoss.releaseTimers
                       = Append(fxEv.timers0, wallClock + releaseTime)

C18_Witness ==
    /\ fxEv.op = "pointerdown"
    /\ fxEv.lastTap0 = wallClock - (doubleTapWindow - WallStep)
    /\ ~fxEv.held0
    /\ kaoss.isKaossHeld

\* The fields of the effect state a program's mapping assigns.
WrittenBy(program) ==
    IF program = "LPF Sweep Delay"
    THEN {"lowPassFreq", "delayFeedback", "delayMix", "isLpfOn", "isDelayOn",
          "isHpfOn", "isReverbOn", "reverbMix"}
    ELSE {"highPassFreq", "reverbMix", "isHpfOn", "isReverbOn", "isLpfOn",
          "isDelayOn", "delayMix"}

\* C19 (as claimed): across a change of the active program every field the
\* outgoing program writes keeps its value, pad touched or not.
C19_SwitchKeepsAll ==
    fxEv.op = "program" => WrittenBy(fxEv.program0) \subseteq fxEv.kept

\* C19 (amended): a change of the active program while the pad is not
\* active changes no field; while the pad is active the incoming program is
\* applied at the current position, and the fields the outgoing program
\* writes and the incoming one does not keep their values.
C19_SwitchKeepsUnowned ==
    fxEv.op = "program" =>
        IF fxEv.active0
        THEN (WrittenBy(fxEv.program0)
                 \ WrittenBy(kaoss.activeKaossProgram)) \subseteq fxEv.kept
        ELSE fxEv.kept = DOMAIN fx /\ fxEv.calls = 0

C19_Witness ==
    /\ fxEv.op = "program"
    /\ fxEv.active0
    /\ fxEv.program0 = "LPF Sweep Delay"
    /\ fx.lowPassFreq = 100
    /\ fx.delayFeedback = 8500
    /\ "delayMix" \notin fxEv.kept

\* A handler has applied the active program at the pad position.
PositionApplied ==
    /\ fxEv.op \in {"pointerdown", "pointermove", "program"}
    /\ fxEv.calls > 0

\* C20: after the active program is applied at a position, the fields it
\* writes have the values the position gives from the freshly constructed
\* state, whatever the positions, programs and controls that came before.
C20_PositionDetermines ==
    PositionApplied =>
        \A f \in WrittenBy(kaoss.activeKaossProgram) :
            fx[f] = KaossWrite(FxState0, kaoss.activeKaossProgram,
                               kaoss.kaossXY)[f]

C20_Witness ==
    /\ fxEv.op = "pointermove"
    /\ fxEv.calls > 0
    /\ kaoss.activeKaossProgram = "LPF Sweep Delay"
    /\ "delayFeedback" \notin fxEv.kept
    /\ fx.delayFeedback = 0
    /\ wallClock > WallStart

\* ---------------------------------------------------- codec claims, again
\* The largest of a set of absolute values, 0 when there is none.
Largest(S) == CHOOSE m \in S \cup {0} : \A n \in S : n <= m

\* C24: the waveform has 1024 points; with w = floor(length / 1024), point
\* i is the largest absolute value of the mono channel over the window
\* [i * w, (i + 1) * w), the windows lie inside the channel and no two
\* share a sample; and the waveform depends on the channel alone.
C24_PeakEnvelope ==
    codec.stage = "waveform" =>
        LET monoChannel == codec.samples
            w == Len(monoChannel) \div waveformLength
            window(i) == (i * w)..((i + 1) * w - 1)
        IN  /\ Len(codec.waveformData) = waveformLength
            /\ \A i \in 0..waveformLength - 1 :
                   /\ codec.waveformData[i + 1]
                          = Largest({Abs(monoChannel[j + 1]) : j \in window(i)})
                   /\ window(i) \subseteq 0..Len(monoChannel) - 1
                   /\ \A k \in 0..i - 1 : window(k) \cap window(i) = {}
            /\ codec.waveformData = Waveform(monoChannel)

C24_Witness ==
    /\ codec.stage = "waveform"
    /\ Len(codec.samples) = 2 * waveformLength + 1
    /\ codec.samples[3] = -SampleOne
    /\ codec.waveformData[1] = SubSteps
    /\ codec.waveformData[2] = SampleOne
    /\ codec.waveformData[3] = SubSteps

\* The signed 16-bit number whose low byte is lo and whose high byte is hi.
SignedLowHigh(lo, hi) ==
    IF hi >= 128 THEN lo + 256 * hi - 65536 ELSE lo + 256 * hi

\* C22: for every channel c and frame i below the decoded length, sample i
\* of channel c is the signed 16-bit little-endian number at byte offset
\* 2 * (i * channels + c) divided by 32768, and a byte after the last whole
\* frame changes no sample.
C22_Deinterleaves ==
    (codec.stage = "buffer" /\ Len(WholeFrames) > 0) =>
        /\ ~codec.raised
        /\ \A c \in 0..codec.numChannels - 1 :
               \A i \in 0..Len(codec.channels[c + 1]) - 1 :
                   LET offset == 2 * (i * codec.numChannels + c)
                   IN  codec.channels[c + 1][i + 1]
                           = SignedLowHigh(codec.bytes[offset + 1],
                                           codec.bytes[offset + 2]) * SubSteps
        /\ \A b \in ByteValues :
               decodeAudioData(WholeFrames \o <<b>>,
                               codec.numChannels).channels = codec.channels

C22_Witness ==
    /\ codec.stage = "buffer"
    /\ codec.numChannels = 2
    /\ codec.bytes = <<1, 1, 1, 128, 128, 1, 128, 128>>
    /\ codec.channels = <<<<257 * SubSteps, 384 * SubSteps>>,
                          <<-32767 * SubSteps, -32640 * SubSteps>>>>

\* -------------------------------------------------------- bit crusher claim
\* N = max(1, round(sampleRateReduction))
HoldLength ==
    IF crusher.sampleRateReduction < 1 THEN 1 ELSE crusher.sampleRateReduction

\* C23 (as claimed): every captured input frame is held for exactly N
\* consecutive frames of the stream: the output frame at position p of the
\* stream holds the input frame at position p - p % N, block boundaries or
\* not.
C23_HoldsExactlyN ==
    \A p \in 0..Len(crusher.sources) - 1 :
        crusher.sources[p + 1] = p - (p % HoldLength)

\* ------------------------------------------------- scheduler claims, again
\* C21 (as claimed): playbackState becomes 'playing' only from 'loading',
\* never from 'paused' or 'stopped', and, when the cursor is set, no earlier
\* than bufferTime after it was last set from the sentinel 0.
C21_PlayingOnlyByLatestLead ==
    [][(playbackState' = "playing" /\ playbackState # "playing") =>
          /\ playbackState = "loading"
          /\ run > 0 => now >= runAt + bufferTime]_vars

\* C25: no step takes the cursor from one value that is not the sentinel 0
\* to a lower one, and the cursor is 0 only when no segment has been started
\* since it was last reset.
C25_CursorMonotone ==
    /\ [](nextStartTime = 0 => run = 0)
    /\ [][(nextStartTime # 0 /\ nextStartTime' # 0)
              => nextStartTime' >= nextStartTime]_vars

C25_Witness ==
    /\ ev.op = "chunk"
    /\ ev.outcome = "scheduled"
    /\ ev.cursor0 # 0
    /\ nextStartTime = ev.cursor0 + ev.dur
    /\ outputNode > 0

\* ------------------------------------------------ effects chain claims, again
\* C26 (as claimed): with the ramps settled, an enabled bit crusher or
\* distortion stage has bypass gain 0 and its processor in the path, and a
\* disabled one has bypass gain 1 and a processor that contributes nothing:
\* it has no output connected, or it puts out silence.
C26_OnePathCarries ==
    /\ IF fx.isBitCrusherOn
       THEN /\ graph.targets["bitCrusherBypass.gain"] = 0
            /\ graph.bitCrusherOutputs # {}
       ELSE /\ graph.targets["bitCrusherBypass.gain"] = GainOne
            /\ graph.bitCrusherOutputs = {}
    /\ IF fx.isDistortionOn
       THEN /\ graph.targets["distortionBypass.gain"] = 0
            /\ DistortionOutputs # {}
       ELSE /\ graph.targets["distortionBypass.gain"] = GainOne
            /\ \/ DistortionOutputs = {}
               \/ makeDistortionCurve(graph.curve, GainOne) = 0

\* The stages with a wet and a bypass gain: their flag, mix and gains.
BlendStages ==
    {[on |-> fx.isPhaserOn, mix |-> fx.phaserMix,
      wet |-> "phaserWet.gain", bypass |-> "phaserBypass.gain"],
     [on |-> fx.isDelayOn, mix |-> fx.delayMix,
      wet |-> "delayWet.gain", bypass |-> "delayBypass.gain"],
     [on |-> fx.isReverbOn, mix |-> fx.reverbMix,
      wet |-> "reverbWet.gain", bypass |-> "reverbBypass.gain"]}

\* C27 (as claimed): after updateFxChain a disabled phaser, delay or reverb
\* stage has wet gain target 0 and bypass gain target 1, and an enabled one
\* has wet = mix and bypass = 1 - mix.
C27_WetBypassTargets ==
    graph.fresh =>
        \A stage \in BlendStages :
            IF stage.on
            THEN /\ graph.targets[stage.wet] = stage.mix
                 /\ graph.targets[stage.bypass] = GainOne - stage.mix
            ELSE /\ graph.targets[stage.wet] = 0
                 /\ graph.targets[stage.bypass] = GainOne

\* C28: the release timer fires no earlier than 250 ms after the
\* pointer-up that set it; if the pad is not active then, the effect state
\* is reset to neutral (reverbMix = 0, delayMix = 0, lowPassFreq = 22050,
\* highPassFreq = 20) and applied to the graph; if it is active, nothing is
\* reset and nothing is issued.
C28_ReleaseResets ==
    fxEv.op = "release" =>
        /\ wallClock >= fxEv.timers0[1]
        /\ kaoss.releaseTimers = Tail(fxEv.timers0)
        /\ IF fxEv.active0
           THEN /\ fxEv.kept = DOMAIN fx
                /\ fxEv.calls = 0
                /\ fxEv.issued = {}
                /\ fxEv.sameGraph
           ELSE /\ fx.reverbMix = 0
                /\ fx.delayMix = 0
                /\ fx.lowPassFreq = 22050
                /\ fx.highPassFreq = 20
                /\ fxEv.calls = 1
                /\ graph.fresh
                /\ graph.targets = RampTargets(fx)

C28_Witness ==
    /\ fxEv.op = "release"
    /\ fxEv.active0
    /\ ~fxEv.held0
    /\ fx.lowPassFreq = 100
    /\ fx.delayMix = 9000

\* The hold latch is off and no pointer is pressed on the pad: the
\* listeners of a pointer-down are registered until its pointer-up.
PadQuiet == ~kaoss.isKaossHeld /\ ~kaoss.listening

\* The gesture is released: the pad is not active and the effect
\* parameters are neutral.
PadReleased ==
    /\ ~kaoss.isKaossActive
    /\ fx.reverbMix = 0
    /\ fx.delayMix = 0
    /\ fx.lowPassFreq = 22050
    /\ fx.highPassFreq = 20

\* C29 (as claimed): when the hold latch is off and no pointer is pressed
\* on the pad, and this stays so, the gesture is eventually released,
\* however the latch was cleared.
C29_EventuallyReleased == []<>(~PadQuiet \/ PadReleased)

\* ------------------------------------------------------------ prompt claim
\* C30 (as claimed): an added prompt gets a promptId that no prompt had
\* when it was added, so this.prompts has grown by one prompt.
C30_FreshPromptId ==
    promptEv.op = "add" =>
        /\ ~promptEv.existed
        /\ Cardinality(DOMAIN prompts) = promptEv.size0 + 1
====
